---- MODULE Spec2Model ----
(***************************************************************************)
(* Model of va_math_gui.py: the combined-rating engine                     *)
(* va_combined_rating_detailed and the handlers of VaMathApp.              *)
(*                                                                         *)
(* Numbers.  A Python float is a record [nan, h]: nan marks NaN, h is the  *)
(* value in hundredths (50.0 is h = 5000).  The inputs considered are      *)
(* whole percentages; for every integer accumulator 0..100 and every whole *)
(* rating 1..100 the IEEE-754 double result of                             *)
(* combined + (100.0 - combined) * (r / 100.0) rounds, under Python's      *)
(* round(), to the same integer as the exact decimal value, so the         *)
(* hundredths below are the exact decimal values of the step fields.       *)
(*                                                                         *)
(* Text.  A Python str / QLineEdit text is a sequence of one-character     *)
(* strings.                                                                *)
(***************************************************************************)
EXTENDS Integers, Sequences, FiniteSets, TLC

\* ------------------------------------------------------------------ bounds
\* Longest list handed to the engine by the direct caller.
MaxLen == 3
\* Most rows the table holds.
MaxRows == 2

\* ------------------------------------------------------------------ floats
Fin(n) == [nan |-> FALSE, h |-> n * 100]
NaN == [nan |-> TRUE, h |-> 0]

\* a < b, a <= b, a > b on floats: every comparison with NaN is false.
FltLt(a, b) == ~a.nan /\ ~b.nan /\ a.h < b.h
FltLe(a, b) == ~a.nan /\ ~b.nan /\ a.h <= b.h
FltGt(a, b) == ~a.nan /\ ~b.nan /\ a.h > b.h

\* ------------------------------------------------------------------ text
Digits == <<"0", "1", "2", "3", "4", "5", "6", "7", "8", "9">>
DigitSet == {Digits[i] : i \in 1..10}
DigitVal(c) == (CHOOSE i \in 1..10 : Digits[i] = c) - 1

RECURSIVE LStrip(_)
LStrip(s) == IF s # <<>> /\ Head(s) = " " THEN LStrip(Tail(s)) ELSE s

RECURSIVE RStrip(_)
RStrip(s) ==
    IF s # <<>> /\ s[Len(s)] = " " THEN RStrip(SubSeq(s, 1, Len(s) - 1)) ELSE s

\* str.strip()
Strip(s) == RStrip(LStrip(s))

\* Value of a digit string, most significant digit first.
RECURSIVE DigitsVal(_)
DigitsVal(s) ==
    IF s = <<>> THEN 0
    ELSE DigitsVal(SubSeq(s, 1, Len(s) - 1)) * 10 + DigitVal(s[Len(s)])

\* Decimal digits of a natural number.
RECURSIVE NatText(_)
NatText(n) ==
    IF n < 10 THEN <<Digits[n + 1]>>
    ELSE NatText(n \div 10) \o <<Digits[(n % 10) + 1]>>

\* float(text): [ok, f].  ok = FALSE is the ValueError.  Accepted here:
\* surrounding blanks, a sign, "nan", and decimal digits with at most one
\* point and at most two fraction digits.
ParseFloat(text) ==
    LET t == Strip(text)
        signed == t # <<>> /\ Head(t) \in {"-", "+"}
        neg == t # <<>> /\ Head(t) = "-"
        body == IF signed THEN Tail(t) ELSE t
        dots == {i \in 1..Len(body) : body[i] = "."}
        dot == IF dots = {} THEN Len(body) + 1 ELSE CHOOSE i \in dots : TRUE
        ip == SubSeq(body, 1, dot - 1)
        fp == SubSeq(body, dot + 1, Len(body))
        wellformed ==
            /\ Cardinality(dots) <= 1
            /\ Len(ip) + Len(fp) >= 1
            /\ Len(fp) <= 2
            /\ \A i \in 1..Len(body) : i = dot \/ body[i] \in DigitSet
        frac == IF Len(fp) = 0 THEN 0
                ELSE IF Len(fp) = 1 THEN DigitVal(fp[1]) * 10
                ELSE DigitsVal(fp)
        mag == DigitsVal(ip) * 100 + frac
    IN  IF body = <<"n", "a", "n">> THEN [ok |-> TRUE, f |-> NaN]
        ELSE IF wellformed
             THEN [ok |-> TRUE, f |-> [nan |-> FALSE, h |-> IF neg THEN -mag ELSE mag]]
        ELSE [ok |-> FALSE, f |-> NaN]

\* str(rating): the shortest repr of a float, always with a fraction digit.
FormatFloat(f) ==
    IF f.nan THEN <<"n", "a", "n">>
    ELSE LET mag == IF f.h < 0 THEN -f.h ELSE f.h
             fr == mag % 100
             frt == IF fr % 10 = 0 THEN <<Digits[(fr \div 10) + 1]>>
                    ELSE <<Digits[(fr \div 10) + 1], Digits[(fr % 10) + 1]>>
         IN  (IF f.h < 0 THEN <<"-">> ELSE <<>>) \o NatText(mag \div 100) \o <<".">> \o frt

\* ------------------------------------------------------------------ engine
\* A Python object in the caller's list: a float, or a str.
FloatObj(f) == [t |-> "float", f |-> f, s |-> <<>>]
StrObj(s) == [t |-> "str", f |-> NaN, s |-> s]

\* float(r) for an element r of the list.
ToFloat(r) == IF r.t = "float" THEN [ok |-> TRUE, f |-> r.f] ELSE ParseFloat(r.s)

\* Faulty variant: the lower bound admitted (0 <= float(r) <= 100)
InRangeLowerInclusive(f) == FltLe(Fin(0), f) /\ FltLe(f, Fin(100))

\* Faulty variant: the upper bound dropped (0 < float(r))
InRangeNoUpper(f) == FltLt(Fin(0), f)

\* 0 < float(r) <= 100
InRange(f) == FltLt(Fin(0), f) /\ FltLe(f, Fin(100))

\* Insert x into a list held in descending order, after the elements that
\* are >= x (the sort is stable).
RECURSIVE InsertDesc(_, _)
InsertDesc(x, s) ==
    IF s = <<>> THEN <<x>>
    ELSE IF Head(s).h >= x.h THEN <<Head(s)>> \o InsertDesc(x, Tail(s))
    ELSE <<x>> \o s

RECURSIVE SortDescFrom(_, _)
SortDescFrom(s, acc) ==
    IF s = <<>> THEN acc ELSE SortDescFrom(Tail(s), InsertDesc(Head(s), acc))

\* Faulty variant: the list is left in the caller's order
SortedKeepOrder(s) == s

\* Faulty variant: reverse=True forgotten (ascending order)
SortedAscending(s) ==
    LET d == SortDescFrom(s, <<>>) IN [i \in 1..Len(d) |-> d[Len(d) + 1 - i]]

\* sorted(..., reverse=True)
SortedReverse(s) == SortDescFrom(s, <<>>)

\* [float(r) for r in ratings if 0 < float(r) <= 100]
RECURSIVE FilterValid(_)
FilterValid(ratings) ==
    IF ratings = <<>> THEN <<>>
    ELSE LET f == ToFloat(Head(ratings)).f
         IN  (IF InRange(f) THEN <<f>> ELSE <<>>) \o FilterValid(Tail(ratings))

\* Python 3 round() of a value given in hundredths: to the nearest integer,
\* a tie going to the even one.
PyRound(h) ==
    LET q == h \div 100
        r == h % 100
    IN  IF r > 50 THEN q + 1
        ELSE IF r < 50 THEN q
        ELSE IF q % 2 = 0 THEN q ELSE q + 1

\* Faulty variant: the accumulator is left out of the sum (round(added))
OneStepAddedOnly(combined, r) ==
    LET remaining == 10000 - combined * 100
        added == (remaining * r.h) \div 10000
    IN  [rating |-> r.h,
         remaining_before |-> remaining,
         added |-> added,
         combined_before_round |-> added,
         combined_after_round |-> PyRound(added)]

\* One pass of the loop body for rating r with accumulator combined: the
\* step record appended; its combined_after_round is the new accumulator.
OneStep(combined, r) ==
    LET remaining == 10000 - combined * 100
        added == (remaining * r.h) \div 10000
        before_round_combined == combined * 100 + added
    IN  [rating |-> r.h,
         remaining_before |-> remaining,
         added |-> added,
         combined_before_round |-> before_round_combined,
         combined_after_round |-> PyRound(before_round_combined)]

\* for r in clean_ratings: ...; the steps list after the loop.
RECURSIVE Loop(_, _, _)
Loop(clean, combined, steps) ==
    IF clean = <<>> THEN steps
    ELSE LET st == OneStep(combined, Head(clean))
         IN  Loop(Tail(clean), st.combined_after_round, Append(steps, st))

Min(a, b) == IF a <= b THEN a ELSE b
Max(a, b) == IF a >= b THEN a ELSE b

\* min(100, max(0, int(round(combined)))): combined is an int by now.
Clamp(combined) == Min(100, Max(0, combined))

\* Faulty variant: the two branches exchanged
RoundToTenSwapped(combined) ==
    LET remainder == combined % 10
    IN  IF remainder >= 5 THEN combined - remainder
        ELSE combined + (10 - remainder)

\* Faulty variant: no rounding to ten
RoundToTenNone(combined) == combined

\* Final rounding to nearest 10 (5 rounds up).
RoundToTen(combined) ==
    LET remainder == combined % 10
    IN  IF remainder >= 5 THEN combined + (10 - remainder)
        ELSE combined - remainder

NotCalled == [kind |-> "none", final |-> 0, steps |-> <<>>]
Return(final, steps) == [kind |-> "return", final |-> final, steps |-> steps]
Raise == [kind |-> "raise", final |-> 0, steps |-> <<>>]

\* va_combined_rating_detailed(ratings): what the call returns, or the
\* exception float() raises on an element that is no number.
va_combined_rating_detailed(ratings) ==
    IF ratings = <<>> THEN Return(0, <<>>)
    ELSE IF \E i \in 1..Len(ratings) : ~ToFloat(ratings[i]).ok THEN Raise
    ELSE LET clean_ratings == SortedReverse(FilterValid(ratings))
         IN  IF clean_ratings = <<>> THEN Return(0, <<>>)
             ELSE LET steps == Loop(clean_ratings, 0, <<>>)
                      combined == Clamp(steps[Len(steps)].combined_after_round)
                  IN  Return(RoundToTen(combined), steps)

\* ------------------------------------------------------------------ state
VARIABLES
    ratings,          \* the list a direct caller passes to the engine
    outcome,          \* what that call produced
    condition_input,  \* QLineEdit: condition name
    rating_input,     \* QLineEdit: rating text
    table,            \* QTableWidget rows: [name, rating] item texts
    result_label,     \* <<>> for "Combined Rating: -- %", <<n>> for n
    details_box,      \* <<>> when empty, else <<the rendered breakdown>>
    last              \* the last handler run: dialog shown, engine call made

engineVars == <<ratings, outcome>>
appVars == <<condition_input, rating_input, table, result_label, details_box, last>>
vars == <<ratings, outcome, condition_input, rating_input, table, result_label,
          details_box, last>>

\* Objects a caller may put in the list: floats below, inside and above
\* (0, 100], NaN, a numeric str and a str that is no number.
ObjectPool ==
    {FloatObj(Fin(n)) : n \in {-5, 0, 1, 10, 20, 30, 40, 50, 60, 70, 90, 99, 100, 150}}
        \cup {FloatObj(NaN), StrObj(<<"3", "0">>), StrObj(<<"a", "b", "c">>)}

SeqsUpTo(S, n) == UNION {[1..k -> S] : k \in 0..n}

\* What the last handler did: the rating text it read (add_condition), the
\* dialog it showed ("" for none), whether it called the engine and with
\* which list, and whether it changed the table or the result widgets.
Done(op, entry, msg, called, args, table_changed, output_changed) ==
    [op |-> op, entry |-> entry, msg |-> msg, called |-> called, args |-> args,
     table_changed |-> table_changed, output_changed |-> output_changed]

NoHandler == Done("none", <<>>, "", FALSE, <<>>, FALSE, FALSE)

AppInit ==
    /\ condition_input = <<>>
    /\ rating_input = <<>>
    /\ table = <<>>
    /\ result_label = <<>>
    /\ details_box = <<>>
    /\ last = NoHandler

\* A direct caller holding any list of at most MaxLen objects.
Init ==
    /\ ratings \in SeqsUpTo(ObjectPool, MaxLen)
    /\ outcome = NotCalled
    /\ AppInit

\* The caller invokes va_combined_rating_detailed(ratings).
Call ==
    /\ outcome = NotCalled
    /\ outcome' = va_combined_rating_detailed(ratings)
    /\ UNCHANGED <<ratings, appVars>>

Next == Call

Spec == Init /\ [][Next]_vars

\* ------------------------------------------------------------------ VaMathApp
\* What the user may type in the two line edits.
NamePool == {<<>>, <<"P", "T", "S", "D">>}
RatingTextPool ==
    {<<>>, <<"a", "b", "c">>, <<"0">>, <<"1", "5", "0">>, <<"5", "0">>,
     <<" ", "3", "0", " ">>, <<"n", "a", "n">>}

\* f"Condition {n}"
ConditionN(n) == <<"C", "o", "n", "d", "i", "t", "i", "o", "n", " ">> \o NatText(n)

\* A table row: each cell is <<>> (no item) or <<text>> (an item).
Row(name, rating_text) == [condition |-> <<name>>, rating |-> <<rating_text>>]

\* rating <= 0 or rating > 100
OutOfRange(f) == FltLe(f, Fin(0)) \/ FltGt(f, Fin(100))

\* The user types into the two line edits.
TypeInputs(name, rating_text) ==
    /\ condition_input' = name
    /\ rating_input' = rating_text
    /\ last' = Done("type", <<>>, "", FALSE, <<>>, FALSE, FALSE)
    /\ UNCHANGED <<table, result_label, details_box, engineVars>>

\* add_condition: the "Add Condition" button.
add_condition ==
    LET name == Strip(condition_input)
        rating_text == Strip(rating_input)
        parsed == ParseFloat(rating_text)
        rating == parsed.f
        msg == IF rating_text = <<>> THEN "Please enter a rating percentage."
               ELSE IF ~parsed.ok THEN "Rating must be a number."
               ELSE IF OutOfRange(rating) THEN "Rating must be between 0 and 100."
               ELSE ""
        row == Len(table)
        shown == IF name = <<>> THEN ConditionN(row + 1) ELSE name
    IN  /\ msg = "" => Len(table) < MaxRows
        /\ IF msg # ""
           THEN UNCHANGED <<table, condition_input, rating_input>>
           ELSE /\ table' = Append(table, Row(shown, FormatFloat(rating)))
                /\ condition_input' = <<>>
                /\ rating_input' = <<>>
        /\ last' = Done("add_condition", rating_input, msg, FALSE, <<>>, msg = "", FALSE)
        /\ UNCHANGED <<result_label, details_box, engineVars>>

\* for row in rows (descending): self.table.removeRow(row), from row n of t
\* down to the first.
RECURSIVE RemoveRows(_, _, _)
RemoveRows(t, rows, n) ==
    IF n = 0 THEN t
    ELSE RemoveRows(IF n \in rows
                    THEN SubSeq(t, 1, n - 1) \o SubSeq(t, n + 1, Len(t))
                    ELSE t,
                    rows, n - 1)

\* remove_selected: the "Remove Selected" button, rows being the selection.
remove_selected(rows) ==
    /\ IF rows = {}
       THEN /\ table' = table
            /\ last' = Done("remove_selected", <<>>, "No row selected.", FALSE, <<>>, FALSE, FALSE)
       ELSE /\ table' = RemoveRows(table, rows, Len(table))
            /\ last' = Done("remove_selected", <<>>, "", FALSE, <<>>, TRUE, FALSE)
    /\ UNCHANGED <<condition_input, rating_input, result_label, details_box, engineVars>>

\* clear_all: the "Clear All" button.
clear_all ==
    /\ table' = <<>>
    /\ result_label' = <<>>
    /\ details_box' = <<>>
    /\ last' = Done("clear_all", <<>>, "", FALSE, <<>>, table # <<>>,
                    result_label # <<>> \/ details_box # <<>>)
    /\ UNCHANGED <<condition_input, rating_input, engineVars>>

\* The loop of calculate_rating over rows row..rowCount: the dialog of the
\* first bad row (and nothing more), or the ratings and conditions
\* collected.
RECURSIVE ScanRows(_, _, _, _)
ScanRows(t, row, rs, conditions) ==
    IF row > Len(t) THEN [msg |-> "", ratings |-> rs, conditions |-> conditions]
    ELSE IF t[row].rating = <<>> THEN ScanRows(t, row + 1, rs, conditions)
    ELSE LET condition_name == IF t[row].condition # <<>> THEN t[row].condition[1]
                               ELSE ConditionN(row)
             parsed == ParseFloat(Strip(t[row].rating[1]))
         IN  IF ~parsed.ok
             THEN [msg |-> "Invalid rating in row", ratings |-> rs, conditions |-> conditions]
             ELSE IF OutOfRange(parsed.f)
             THEN [msg |-> "Rating in row must be between 0 and 100.",
                   ratings |-> rs, conditions |-> conditions]
             ELSE ScanRows(t, row + 1, Append(rs, parsed.f),
                           Append(conditions, [name |-> condition_name, r |-> parsed.f]))

\* sorted(conditions, key=lambda x: x[1], reverse=True): stable, by "<" on
\* the rating (with a NaN rating no comparison holds; exact for two rows).
RECURSIVE InsertCondition(_, _)
InsertCondition(x, s) ==
    IF s = <<>> THEN <<x>>
    ELSE IF ~FltLt(Head(s).r, x.r) THEN <<Head(s)>> \o InsertCondition(x, Tail(s))
    ELSE <<x>> \o s

RECURSIVE SortConditions(_, _)
SortConditions(s, acc) ==
    IF s = <<>> THEN acc ELSE SortConditions(Tail(s), InsertCondition(Head(s), acc))

\* calculate_rating: the "Calculate Combined Rating" button.  The breakdown
\* is kept as the values its lines print.
calculate_rating ==
    \E scan \in {ScanRows(table, 1, <<>>, <<>>)} :
    LET msg == IF scan.msg # "" THEN scan.msg
               ELSE IF scan.ratings = <<>> THEN "Please add at least one condition."
               ELSE ""
        args == [i \in 1..Len(scan.ratings) |-> FloatObj(scan.ratings[i])]
    IN  /\ IF msg # ""
           THEN /\ UNCHANGED <<result_label, details_box>>
                /\ last' = Done("calculate_rating", <<>>, msg, FALSE, <<>>, FALSE, FALSE)
           ELSE \E res \in {va_combined_rating_detailed(args)} :
                /\ result_label' = <<res.final>>
                /\ details_box' = <<[conditions |-> SortConditions(scan.conditions, <<>>),
                                     steps |-> res.steps,
                                     final |-> res.final]>>
                /\ last' = Done("calculate_rating", <<>>, "", TRUE, scan.ratings, FALSE, TRUE)
        /\ UNCHANGED <<table, condition_input, rating_input, engineVars>>

InitApp ==
    /\ ratings = <<>>
    /\ outcome = NotCalled
    /\ AppInit

NextApp ==
    \/ \E name \in NamePool, rating_text \in RatingTextPool : TypeInputs(name, rating_text)
    \/ add_condition
    \/ \E rows \in SUBSET (1..Len(table)) : remove_selected(rows)
    \/ clear_all
    \/ calculate_rating

SpecApp == InitApp /\ [][NextApp]_vars

\* ------------------------------------------------------------------ properties
\* Vocabulary of the properties, stated apart from the engine's own tests.
IsPct(f) == ~f.nan /\ 0 < f.h /\ f.h <= 10000
ElemNumeric(r) == ToFloat(r).ok
ElemPct(r) == ElemNumeric(r) /\ IsPct(ToFloat(r).f)
Returned == outcome.kind = "return"
Called == outcome # NotCalled
KeptElements == SelectSeq(ratings, ElemPct)
RoundHalfUp(h) == (h + 50) \div 100
StepCount == Len(outcome.steps)
LastAfter == outcome.steps[StepCount].combined_after_round

\* C1: every step's combined_after_round is the round-half-up of its
\* combined_before_round (a fraction of exactly 0.5 goes up); for
\* [50, 30, 10] the third step is 68.5 -> 69.
C1_StepsRoundHalfUp ==
    Returned =>
        \A i \in 1..StepCount :
            outcome.steps[i].combined_after_round
                = RoundHalfUp(outcome.steps[i].combined_before_round)

\* C2: the call raises no error for any input list: non-numeric and
\* out-of-range elements are dropped and the call returns the pair computed
\* from the remaining elements.
C2_NeverRaises ==
    Called =>
        /\ outcome.kind = "return"
        /\ outcome = va_combined_rating_detailed(KeptElements)

\* C3: for every non-empty list of ratings all in (0, 100], final_rating is
\* in 0..100 and a multiple of 10.
C3_FinalRange ==
    (Returned /\ ratings # <<>> /\ \A i \in 1..Len(ratings) : ElemPct(ratings[i])) =>
        /\ 0 <= outcome.final
        /\ outcome.final <= 100
        /\ outcome.final % 10 = 0

\* C3 witness: an all-valid list whose accumulator ended off a multiple of
\* ten, so the final rounding had to act.
C3_Witness ==
    /\ Returned
    /\ Len(ratings) >= 2
    /\ \A i \in 1..Len(ratings) : ElemPct(ratings[i])
    /\ LastAfter % 10 # 0

\* C4: a list of numbers holding no value in (0, 100] (empty, or every
\* element <= 0 or > 100) gives exactly final_rating = 0 and no steps.
C4_NoValidGivesZero ==
    (Called /\ \A i \in 1..Len(ratings) : ElemNumeric(ratings[i]) /\ ~ElemPct(ratings[i])) =>
        outcome = Return(0, <<>>)

\* C4 witness: a called list with an element <= 0 and an element > 100 and
\* nothing valid.
C4_Witness ==
    /\ Called
    /\ \A i \in 1..Len(ratings) : ElemNumeric(ratings[i]) /\ ~ElemPct(ratings[i])
    /\ \E i, j \in 1..Len(ratings) :
        /\ ~ToFloat(ratings[i]).f.nan /\ ToFloat(ratings[i]).f.h <= 0
        /\ ToFloat(ratings[j]).f.h > 10000
    /\ outcome = Return(0, <<>>)

\* C5: order-independence: every permutation of the input gives the
\* identical final_rating and the identical step sequence.
C5_OrderIndependent ==
    Called =>
        \A p \in Permutations(1..Len(ratings)) :
            va_combined_rating_detailed([i \in 1..Len(ratings) |-> ratings[p[i]]]) = outcome

\* C5 witness: a list given in ascending order of distinct valid ratings,
\* all of which made a step.
C5_Witness ==
    /\ Returned
    /\ Len(ratings) >= 3
    /\ StepCount = Len(ratings)
    /\ \A i \in 1..(Len(ratings) - 1) : ToFloat(ratings[i]).f.h < ToFloat(ratings[i + 1]).f.h

\* C6: every step's combined_after_round is in 0..100, so the clamp after
\* the loop leaves the accumulator as it is.
C6_StepsBounded ==
    Returned =>
        /\ \A i \in 1..StepCount :
            /\ 0 <= outcome.steps[i].combined_after_round
            /\ outcome.steps[i].combined_after_round <= 100
        /\ StepCount > 0 =>
            (IF LastAfter < 0 THEN 0 ELSE IF LastAfter > 100 THEN 100 ELSE LastAfter) = LastAfter

\* C6 witness: a trace that reaches the upper bound 100 after a step that
\* did not, from a list that also held a value above 100.
C6_Witness ==
    /\ Returned
    /\ StepCount >= 2
    /\ LastAfter = 100
    /\ outcome.steps[1].combined_after_round < 100
    /\ \E i \in 1..Len(ratings) : ToFloat(ratings[i]).f.h > 10000

\* C7: the 'rating' fields of the steps are exactly the input values in
\* (0, 100], with their multiplicities, in non-increasing order; the other
\* values make no step and the result is that of the input without them.
C7_StepsFromFilteredOnly ==
    Returned =>
        /\ StepCount = Len(KeptElements)
        /\ \A i \in 1..(StepCount - 1) :
            outcome.steps[i].rating >= outcome.steps[i + 1].rating
        /\ \A k \in 1..Len(KeptElements) :
            Cardinality({i \in 1..StepCount :
                            outcome.steps[i].rating = ToFloat(KeptElements[k]).f.h})
              = Cardinality({j \in 1..Len(KeptElements) :
                            ToFloat(KeptElements[j]).f = ToFloat(KeptElements[k]).f})
        /\ outcome = va_combined_rating_detailed(KeptElements)

\* C7 witness: a list with a dropped value between two valid ones given in
\* ascending order.
C7_Witness ==
    /\ Returned
    /\ Len(ratings) >= 3
    /\ StepCount = 2
    /\ ElemPct(ratings[1])
    /\ ~ElemPct(ratings[2])
    /\ ElemPct(ratings[3])
    /\ ToFloat(ratings[1]).f.h < ToFloat(ratings[3]).f.h

\* C9: with c the last combined_after_round and m = c mod 10, final_rating
\* is c + (10 - m) if m >= 5, else c - m.
C9_FinalFromLastStep ==
    (Returned /\ StepCount > 0) =>
        LET c == LastAfter
            m == c % 10
        IN  outcome.final = IF m >= 5 THEN c + (10 - m) ELSE c - m

\* C9 witness: a trace ending on a remainder of exactly 5, returned rounded
\* up.
C9_Witness ==
    /\ Returned
    /\ StepCount >= 2
    /\ LastAfter % 10 = 5
    /\ outcome.final = LastAfter + 5

\* C10: within a trace combined_after_round never decreases and
\* remaining_before never increases, and one more valid rating added to the
\* input never lowers final_rating.
C10_Monotone ==
    Returned =>
        /\ \A i \in 1..(StepCount - 1) :
            /\ outcome.steps[i].combined_after_round
                 <= outcome.steps[i + 1].combined_after_round
            /\ outcome.steps[i].remaining_before
                 >= outcome.steps[i + 1].remaining_before
        /\ \A x \in {o \in ObjectPool : ElemPct(o)} :
            va_combined_rating_detailed(Append(ratings, x)).final >= outcome.final

\* C10 witness: a trace of several steps with a tie rounded on the way, and
\* a rating whose addition raises the final rating.
C10_Witness ==
    /\ Returned
    /\ StepCount >= 3
    /\ \E i \in 1..StepCount : outcome.steps[i].combined_before_round % 100 = 50
    /\ \E x \in {o \in ObjectPool : ElemPct(o)} :
        va_combined_rating_detailed(Append(ratings, x)).final > outcome.final

\* A rating text that is empty, not a number, or outside (0, 100].
BadEntry(text) ==
    \/ Strip(text) = <<>>
    \/ ~ParseFloat(text).ok
    \/ ~IsPct(ParseFloat(text).f)

\* C8: in VaMathApp a rating entry that is empty, non-numeric or outside
\* (0, 100] is rejected with a message: a rejected add_condition leaves the
\* table unchanged, a calculate_rating meeting such a row neither calls the
\* engine nor changes the result widgets, and so the engine is only called
\* with a non-empty list of values in (0, 100].
C8_InvalidEntriesRejected ==
    /\ (last.op = "add_condition" /\ BadEntry(last.entry)) =>
        (last.msg # "" /\ ~last.table_changed)
    /\ (last.op = "calculate_rating"
            /\ \E i \in 1..Len(table) :
                table[i].rating = <<>> \/ BadEntry(table[i].rating[1])) =>
        (last.msg # "" /\ ~last.called /\ ~last.output_changed)
    /\ last.called =>
        (last.args # <<>> /\ \A i \in 1..Len(last.args) : IsPct(last.args[i]))

====
